---- MODULE Spec2Model ----
(***************************************************************************)
(* Occupancy tracking of the smart parking system: the region extractor    *)
(* (app/core/detector.py), the classifier (app/core/predictor.py), the    *)
(* frame-driven engine VideoProcessor (app/core/processor.py) and the      *)
(* script that runs it over a video (run.py).                              *)
(*                                                                         *)
(* Images are modelled by what the engine reads of them: a frame is its    *)
(* number of axes, its height and width, and the mean intensity of each    *)
(* spot's crop.  Reals are exact: magnitudes are integers, thresholds and  *)
(* probabilities are tenths.  Floating point values that are not numbers   *)
(* (inf, nan) and Python's None are kept as such.                          *)
(***************************************************************************)
EXTENDS Integers, Sequences, FiniteSets, TLC

VARIABLES
    detector,          \* ParkingSpotDetector: [mask, scale_coef, spots]
    settings,          \* app.utils.config.settings: [INVERT_PREDICTION, CONFIDENCE_THRESHOLD]
    processing_step,   \* VideoProcessor.processing_step
    diff_threshold,    \* VideoProcessor.diff_threshold, in tenths
    spots,             \* VideoProcessor.spots
    spots_status,      \* VideoProcessor.spots_status
    diffs,             \* VideoProcessor.diffs
    previous_frame,    \* VideoProcessor.previous_frame
    frame_number,      \* VideoProcessor.frame_number
    total_frames,      \* VideoProcessor.total_frames
    processed_frames,  \* VideoProcessor.processed_frames
    cap,               \* VideoProcessor.cap: "none" (no attribute), "open" or "released"
    succeeded,         \* history: some classifier invocation has returned without failing
    last,              \* observation of the last call: its name, the shape of the
                       \* frame it received, what it selected and what it returned
                       \* (stats: the dictionary returned, drawn: the overlays of
                       \* the frame returned, if one was)
    buffers,           \* the image buffers of a call of process_frame, by identity
    run,               \* run.process_video: its position and its capture handle
    call               \* a direct call of a function: its arguments and its result

vars == <<detector, settings, processing_step, diff_threshold, spots, spots_status,
          diffs, previous_frame, frame_number, total_frames, processed_frames, cap,
          succeeded, last, buffers, run, call>>

\* what the engine's own specification leaves aside: buffer identity (a frame is
\* its value there), the script around the engine, and direct calls
aside == <<buffers, run, call>>

config == <<detector, settings, processing_step, diff_threshold>>

----------------------------------------------------------------------------
(* Bounds of the model *)

\* at most MaxFrames frames are submitted in a run
MaxFrames == 3

\* at most MaxBatch images are given to predict_batch
MaxBatch == 2

----------------------------------------------------------------------------
(* Values *)

\* SpotStatus: predictor.EMPTY (True), predictor.OCCUPIED (False), None
EMPTY == "Empty"
OCCUPIED == "Occupied"
UNKNOWN == "Unknown"

\* Python float values and None
Num(n) == [k |-> "num", v |-> n]
INF == [k |-> "inf", v |-> 0]
NAN == [k |-> "nan", v |-> 0]
NONE == [k |-> "none", v |-> 0]

\* absent frame (previous_frame is None)
NoFrame == [ndim |-> 0, height |-> 0, width |-> 0, mean |-> <<>>]

Min(a, b) == IF a < b THEN a ELSE b
Abs(a) == IF a < 0 THEN 0 - a ELSE a
Range(s) == {s[i] : i \in 1..Len(s)}

\* list(range(n)), with the model's indices 1..n
RangeList(n) == [i \in 1..n |-> i]

----------------------------------------------------------------------------
(* Floating point comparison and product, with inf and nan *)

\* a > b
FGt(a, b) ==
    IF a.k = "nan" \/ b.k = "nan" THEN FALSE
    ELSE IF a.k = "inf" THEN b.k # "inf"
    ELSE IF b.k = "inf" THEN FALSE
    ELSE a.v > b.v

\* a * t, t a finite non-negative number of tenths; the result is in tenths
FMulTenths(a, t) ==
    IF a.k = "nan" THEN NAN
    ELSE IF a.k = "inf" THEN (IF t = 0 THEN NAN ELSE INF)
    ELSE Num(a.v * t)

\* a >= b, b in tenths
FGeTenths(a, b) ==
    IF a.k = "nan" \/ b.k = "nan" THEN FALSE
    ELSE IF a.k = "inf" THEN TRUE
    ELSE IF b.k = "inf" THEN FALSE
    ELSE a.v * 10 >= b.v

\* Python's max(list) on a non-empty list of floats: the first element, replaced by
\* each later element that compares greater
RECURSIVE PyMaxFrom(_, _, _)
PyMaxFrom(s, i, m) ==
    IF i > Len(s) THEN m
    ELSE PyMaxFrom(s, i + 1, IF FGt(s[i], m) THEN s[i] ELSE m)

PyMax(s) == PyMaxFrom(s, 2, s[1])

----------------------------------------------------------------------------
(* Region extractor: ParkingSpotDetector *)

\* detector.py:66, the size a spot's width and height must exceed
MIN_SPOT_SIZE == 10

Box(x, y, w, h) == [x |-> x, y |-> y, w |-> w, h |-> h]

\* The masks of the model, each given by the statistics
\* cv2.connectedComponentsWithStats reports for its labels 1..n (label 0, the
\* background, left out): the bounding box of each 4-connected component.
Masks ==
    { <<Box(10, 10, 21, 21), Box(50, 50, 21, 21)>>,
      <<Box(10, 10, 21, 21), Box(80, 80, 6, 6)>>,
      <<Box(0, 0, 10, 11)>> }

ScaleCoefs == {1, 2}

\* mutant: the position of a box is not scaled, only its size
ScaledBoxSizeOnly(b, scale_coef) ==
    Box(b.x, b.y, b.w * scale_coef, b.h * scale_coef)

\* one component's box after int(value * scale_coef)
ScaledBox(b, scale_coef) ==
    Box(b.x * scale_coef, b.y * scale_coef, b.w * scale_coef, b.h * scale_coef)

\* mutant: a box is put in front of the list instead of at its end
RECURSIVE DetectFromReversed(_, _, _, _)
DetectFromReversed(values, scale_coef, i, acc) ==
    IF i > Len(values) THEN acc
    ELSE LET sb == Box(values[i].x * scale_coef, values[i].y * scale_coef,
                       values[i].w * scale_coef, values[i].h * scale_coef)
         IN DetectFromReversed(values, scale_coef, i + 1,
                               IF sb.w > 10 /\ sb.h > 10 THEN <<sb>> \o acc ELSE acc)

\* mutant: a box of exactly the filter's size is kept
RECURSIVE DetectFromInclusive(_, _, _, _)
DetectFromInclusive(values, scale_coef, i, acc) ==
    IF i > Len(values) THEN acc
    ELSE LET sb == Box(values[i].x * scale_coef, values[i].y * scale_coef,
                       values[i].w * scale_coef, values[i].h * scale_coef)
         IN DetectFromInclusive(values, scale_coef, i + 1,
                                IF sb.w >= 10 /\ sb.h >= 10 THEN Append(acc, sb) ELSE acc)

\* the loop of detect_spots from label i on, spots being the list built so far
RECURSIVE DetectFrom(_, _, _, _)
DetectFrom(values, scale_coef, i, acc) ==
    IF i > Len(values) THEN acc
    ELSE LET sb == ScaledBox(values[i], scale_coef)
         IN DetectFrom(values, scale_coef, i + 1,
                       IF sb.w > MIN_SPOT_SIZE /\ sb.h > MIN_SPOT_SIZE
                       THEN Append(acc, sb) ELSE acc)

DetectSpots(det) == DetectFrom(det.mask, det.scale_coef, 1, <<>>)

----------------------------------------------------------------------------
(* Frames *)

FrameSizes == {200, 40}

\* frame[y1:y1 + h, x1:x1 + w, :] of a frame with three axes: the slice is
\* clipped to the frame, its shape is <<rows, columns>> (the channel axis kept)
CropShape(frame, spot) ==
    << Min(spot.y + spot.h, frame.height) - Min(spot.y, frame.height),
       Min(spot.x + spot.w, frame.width) - Min(spot.x, frame.width) >>

\* ndarray.size of that crop
CropSize(frame, spot) == CropShape(frame, spot)[1] * CropShape(frame, spot)[2] * 3

\* the pixel means of the crop of spot i: dark, or a level of its own, so that
\* two spots can change by different amounts
PixelMeans(i) == {0, i}

\* The frames a caller or the capture can hand to process_frame for the spot
\* list sp: colour frames of each size with every combination of crop means
\* (the mean of an empty crop is not a value of the frame, it is kept 0), and
\* one frame without a channel axis.
Frames(sp) ==
    { f \in [ndim : {3}, height : FrameSizes, width : FrameSizes,
             mean : [1..Len(sp) -> 0..Len(sp)]] :
        /\ f.height = f.width
        /\ \A i \in 1..Len(sp) :
               /\ f.mean[i] \in PixelMeans(i)
               /\ CropSize(f, sp[i]) = 0 => f.mean[i] = 0 }
    \cup { [ndim |-> 2, height |-> 200, width |-> 200,
            mean |-> [i \in 1..Len(sp) |-> 0]] }

----------------------------------------------------------------------------
(* Classifier: ParkingSpotPredictor *)

\* config.py:32, CONFIDENCE_THRESHOLD = 0.5, in tenths
DefaultConfidence == 5

\* What one inference does: the model reports class probabilities (tenths),
\* or a plain label, or resizing or inference raises.
Proba(e, o) == [kind |-> "proba", e |-> e, o |-> o, v |-> 0]
Label(v) == [kind |-> "label", e |-> 0, o |-> 0, v |-> v]
Raises == [kind |-> "raise", e |-> 0, o |-> 0, v |-> 0]

ModelOutputs == {Proba(8, 2), Proba(2, 8), Raises}

\* the classifier failed: an exception, or a value that is no class
Failed(out) == out.kind = "raise" \/ (out.kind = "label" /\ out.v \notin {0, 1})

\* mutant: below the threshold a tie of the two probabilities is Empty
PredictTieEmpty(size, out, confidence_threshold) ==
    IF size = 0 THEN OCCUPIED
    ELSE IF out.kind = "raise" THEN OCCUPIED
    ELSE IF out.kind = "proba" THEN
        IF out.e >= confidence_threshold THEN EMPTY
        ELSE IF out.o >= confidence_threshold THEN OCCUPIED
        ELSE IF out.e >= out.o THEN EMPTY ELSE OCCUPIED
    ELSE IF out.v = 0 THEN EMPTY
    ELSE OCCUPIED

\* predict(spot_image, confidence_threshold), size being spot_image.size
Predict(size, out, confidence_threshold) ==
    IF size = 0 THEN OCCUPIED
    ELSE IF out.kind = "raise" THEN OCCUPIED
    ELSE IF out.kind = "proba" THEN
        IF out.e >= confidence_threshold THEN EMPTY
        ELSE IF out.o >= confidence_threshold THEN OCCUPIED
        ELSE IF out.e > out.o THEN EMPTY ELSE OCCUPIED
    ELSE IF out.v = 0 THEN EMPTY
    ELSE IF out.v = 1 THEN OCCUPIED
    ELSE OCCUPIED

\* a crop handed to the classifier: None, or an array of some size
NoneImage == [kind |-> "None", size |-> 0]
ArrayImage(size) == [kind |-> "array", size |-> size]

\* predict(spot_image, confidence_threshold) with its test for None
PredictCrop(img, out, confidence_threshold) ==
    IF img.kind = "None" THEN OCCUPIED
    ELSE Predict(img.size, out, confidence_threshold)

\* mutant: an entry that is None gets no result
RECURSIVE PredictBatchFromSkipNone(_, _, _)
PredictBatchFromSkipNone(spot_images, i, predictions) ==
    IF i > Len(spot_images) THEN predictions
    ELSE PredictBatchFromSkipNone(spot_images, i + 1,
             IF spot_images[i].img.kind # "None"
             THEN Append(predictions,
                         PredictCrop(spot_images[i].img, spot_images[i].out,
                                     DefaultConfidence))
             ELSE predictions)

\* the loop of predict_batch from entry i on; spot_images[i] is an image with
\* what the model does when it is invoked for it
RECURSIVE PredictBatchFrom(_, _, _)
PredictBatchFrom(spot_images, i, predictions) ==
    IF i > Len(spot_images) THEN predictions
    ELSE PredictBatchFrom(spot_images, i + 1,
             IF spot_images[i].img.kind # "None"
             THEN Append(predictions,
                         PredictCrop(spot_images[i].img, spot_images[i].out,
                                     DefaultConfidence))
             ELSE Append(predictions, OCCUPIED))

PredictBatch(spot_images) == PredictBatchFrom(spot_images, 1, <<>>)

\* Python's "not status" on a bool
Not(status) == IF status = EMPTY THEN OCCUPIED ELSE EMPTY

----------------------------------------------------------------------------
(* Occupancy engine: VideoProcessor *)

\* the crop of spot number i: its shape and the mean of its pixels
Crop(frame, spot, i) == [shape |-> CropShape(frame, spot), mean |-> frame.mean[i]]

\* mutant: the shapes of the two crops are not compared
CalculateDifferenceNoShapeTest(img1, img2) ==
    IF img1.shape[1] * img1.shape[2] = 0 THEN NAN
    ELSE Num(Abs(img1.mean - img2.mean))

\* _calculate_difference(img1, img2); np.mean of an empty array is nan
CalculateDifference(img1, img2) ==
    IF img1.shape # img2.shape THEN INF
    ELSE IF img1.shape[1] * img1.shape[2] = 0 THEN NAN
    ELSE Num(Abs(img1.mean - img2.mean))

\* mutant: the magnitude table is replaced by one that holds the first spot only
UpdateDifferencesFirstOnly(df, sp, current_frame, prev) ==
    IF Len(sp) = 0 THEN [raised |-> FALSE, diffs |-> df]
    ELSE IF current_frame.ndim # 3 \/ prev.ndim # 3 THEN [raised |-> TRUE, diffs |-> df]
    ELSE [raised |-> FALSE,
          diffs |-> <<CalculateDifference(Crop(current_frame, sp[1], 1),
                                          Crop(prev, sp[1], 1))>>]

\* _update_differences(current_frame), called with a previous frame.  Indexing a
\* frame that has no channel axis with three indices raises IndexError, at the
\* first spot, before any magnitude is written.
UpdateDifferences(df, sp, current_frame, prev) ==
    IF Len(sp) = 0 THEN [raised |-> FALSE, diffs |-> df]
    ELSE IF current_frame.ndim # 3 \/ prev.ndim # 3 THEN [raised |-> TRUE, diffs |-> df]
    ELSE [raised |-> FALSE,
          diffs |-> [i \in 1..Len(sp) |->
                        CalculateDifference(Crop(current_frame, sp[i], i),
                                            Crop(prev, sp[i], i))]]

\* the list comprehension of _get_spots_to_check from index i on
RECURSIVE OverThreshold(_, _, _)
OverThreshold(df, threshold, i) ==
    IF i > Len(df) THEN <<>>
    ELSE IF df[i] # NONE /\ FGeTenths(df[i], threshold)
         THEN <<i>> \o OverThreshold(df, threshold, i + 1)
         ELSE OverThreshold(df, threshold, i + 1)

\* max(self.diffs), or a product with it, raises TypeError on a None magnitude
SpotsToCheckRaises(prev, df) ==
    prev # NoFrame /\ \E i \in 1..Len(df) : df[i] = NONE

\* a >= b with > in its place
FGtTenths(a, b) ==
    IF a.k = "nan" \/ b.k = "nan" THEN FALSE
    ELSE IF a.k = "inf" THEN b.k # "inf"
    ELSE IF b.k = "inf" THEN FALSE
    ELSE a.v * 10 > b.v

\* mutant: a spot is selected only if its magnitude exceeds the threshold
GetSpotsToCheckStrict(prev, sp, df, threshold_coef) ==
    IF prev = NoFrame THEN RangeList(Len(sp))
    ELSE IF Len(df) = 0 \/ PyMax(df) = Num(0) THEN RangeList(Len(sp))
    ELSE LET threshold == FMulTenths(PyMax(df), threshold_coef)
             spots_to_check ==
                 SelectSeq(RangeList(Len(df)),
                           LAMBDA i : df[i] # NONE /\ FGtTenths(df[i], threshold))
         IN IF spots_to_check = <<>> THEN RangeList(Len(sp)) ELSE spots_to_check

\* mutant: every spot is listed twice
GetSpotsToCheckTwice(prev, sp, df, threshold_coef) ==
    RangeList(Len(sp)) \o RangeList(Len(sp))

\* mutant: every spot is checked on every sampled frame
GetSpotsToCheckAll(prev, sp, df, threshold_coef) == RangeList(Len(sp))

\* mutant: nothing is checked on the first sampled frame
GetSpotsToCheckSkipFirst(prev, sp, df, threshold_coef) ==
    IF prev = NoFrame THEN <<>>
    ELSE IF Len(df) = 0 \/ PyMax(df) = Num(0) THEN RangeList(Len(sp))
    ELSE LET spots_to_check ==
                 OverThreshold(df, FMulTenths(PyMax(df), threshold_coef), 1)
         IN IF spots_to_check = <<>> THEN RangeList(Len(sp)) ELSE spots_to_check

\* mutant: the thresholded list is returned also when it is empty
GetSpotsToCheckNoFallback(prev, sp, df, threshold_coef) ==
    IF prev = NoFrame THEN RangeList(Len(sp))
    ELSE IF Len(df) = 0 \/ PyMax(df) = Num(0) THEN RangeList(Len(sp))
    ELSE OverThreshold(df, FMulTenths(PyMax(df), threshold_coef), 1)

\* _get_spots_to_check(), when it does not raise
GetSpotsToCheck(prev, sp, df, threshold_coef) ==
    IF prev = NoFrame THEN RangeList(Len(sp))
    ELSE IF Len(df) = 0 \/ PyMax(df) = Num(0) THEN RangeList(Len(sp))
    ELSE LET max_diff == PyMax(df)
             threshold == FMulTenths(max_diff, threshold_coef)
             spots_to_check == OverThreshold(df, threshold, 1)
         IN IF spots_to_check = <<>> THEN RangeList(Len(sp)) ELSE spots_to_check

\* mutant: a classification that failed is stored as Unknown
StoredStatusUnknownOnFailure(size, out, stg) ==
    IF Failed(out) THEN UNKNOWN
    ELSE IF stg.INVERT_PREDICTION
         THEN Not(Predict(size, out, stg.CONFIDENCE_THRESHOLD))
         ELSE Predict(size, out, stg.CONFIDENCE_THRESHOLD)

\* mutant: the value predict falls back to on a failure is stored as it is
StoredStatusFallbackKept(size, out, stg) ==
    IF Failed(out) THEN OCCUPIED
    ELSE IF stg.INVERT_PREDICTION
         THEN Not(Predict(size, out, stg.CONFIDENCE_THRESHOLD))
         ELSE Predict(size, out, stg.CONFIDENCE_THRESHOLD)

\* the status _update_spot_statuses stores for one classification
StoredStatus(size, out, stg) ==
    LET status == Predict(size, out, stg.CONFIDENCE_THRESHOLD)
    IN IF stg.INVERT_PREDICTION THEN Not(status) ELSE status

\* mutant: the table is rebuilt, a spot that is not checked becomes Unknown
UpdateFromRebuilt(st, sp, spots_to_check, k, frame, outs, stg) ==
    [i \in 1..Len(st) |->
        IF i \in Range(spots_to_check) /\ CropSize(frame, sp[i]) > 0
        THEN StoredStatus(CropSize(frame, sp[i]), outs[i], stg)
        ELSE UNKNOWN]

\* mutant: only the candidate that comes last in the list is written
UpdateFromLastWins(st, sp, spots_to_check, k, frame, outs, stg) ==
    IF spots_to_check = <<>> THEN st
    ELSE LET spot_idx == spots_to_check[Len(spots_to_check)]
             size == CropSize(frame, sp[spot_idx])
         IN IF size > 0
            THEN [st EXCEPT ![spot_idx] = StoredStatus(size, outs[spot_idx], stg)]
            ELSE st

\* the loop of _update_spot_statuses over spots_to_check from position k on;
\* outs[i] is what the model does when it is invoked for spot i
RECURSIVE UpdateFrom(_, _, _, _, _, _, _)
UpdateFrom(st, sp, spots_to_check, k, frame, outs, stg) ==
    IF k > Len(spots_to_check) THEN st
    ELSE LET spot_idx == spots_to_check[k]
             size == CropSize(frame, sp[spot_idx])
         IN UpdateFrom(IF size > 0
                       THEN [st EXCEPT ![spot_idx] = StoredStatus(size, outs[spot_idx], stg)]
                       ELSE st,
                       sp, spots_to_check, k + 1, frame, outs, stg)

\* _update_spot_statuses(frame): the candidate list, the spots the classifier was
\* invoked for (invocations: one entry per call of predict, in order), and the
\* new status table; cropping a frame without a channel
\* axis raises IndexError at the first candidate.
UpdateSpotStatuses(st, sp, df, prev, frame, outs, threshold_coef, stg) ==
    IF SpotsToCheckRaises(prev, df)
    THEN [raised |-> TRUE, status |-> st, candidates |-> {}, classified |-> {},
          invocations |-> <<>>]
    ELSE LET spots_to_check ==
                 CHOOSE l \in {GetSpotsToCheck(prev, sp, df, threshold_coef)} : TRUE
         IN IF spots_to_check # <<>> /\ frame.ndim # 3
            THEN [raised |-> TRUE, status |-> st,
                  candidates |-> Range(spots_to_check), classified |-> {},
                  invocations |-> <<>>]
            ELSE [raised |-> FALSE,
                  status |-> UpdateFrom(st, sp, spots_to_check, 1, frame, outs, stg),
                  candidates |-> Range(spots_to_check),
                  classified |-> {i \in Range(spots_to_check) : CropSize(frame, sp[i]) > 0},
                  invocations |-> SelectSeq(spots_to_check,
                                            LAMBDA i : CropSize(frame, sp[i]) > 0)]

\* mutant: every frame is a sampling frame
IsSamplingFrameAlways(n, step) == TRUE

\* mutant: the cadence is tested on the count before the frame
IsSamplingFrameBefore(n, step) == (n - 1) % step = 0

\* frame_number % processing_step == 0
IsSamplingFrame(n, step) == n % step = 0

\* mutant: the frame is not counted
CountFrameStuck(n) == n

\* self.frame_number += 1
CountFrame(n) == n + 1

\* mutant: a spot is drawn as available unless it is Occupied
AnnotateFrameUnknownAvailable(sp, st) ==
    [colors |-> [i \in 1..Len(sp) |-> IF st[i] # OCCUPIED THEN "green" ELSE "red"],
     available_count |-> Cardinality({i \in 1..Len(st) : st[i] = EMPTY}),
     total_count |-> Len(st)]

\* what _annotate_frame draws for the spots sp with the statuses st: one
\* rectangle per spot, green if its status is truthy (True), red otherwise
\* (False or None), and the banner "Available spots: a / t"
AnnotateFrame(sp, st) ==
    [colors |-> [i \in 1..Len(sp) |-> IF st[i] = EMPTY THEN "green" ELSE "red"],
     available_count |-> Cardinality({i \in 1..Len(st) : st[i] = EMPTY}),
     total_count |-> Len(st)]

\* the observation of a call that is not a frame submission
Obs(op, ret) ==
    [op |-> op, received |-> FALSE, shape |-> <<0, 0, 0>>, candidates |-> {},
     classified |-> {}, invocations |-> <<>>, returned |-> <<>>, failed |-> {},
     ret |-> ret, stats |-> {}, drawn |-> {}]

\* The update step of process_frame for a frame it holds: whether the frame is a
\* sampling frame, and the outcome of _update_differences (ud) and of
\* _update_spot_statuses (us).  outs[i] is what the model does when it is
\* invoked for spot i.
Pass(frame, outs) ==
    LET n == CountFrame(frame_number)
        sampling == IsSamplingFrame(n, processing_step)
        ud == CHOOSE r \in { IF sampling /\ previous_frame # NoFrame
                             THEN UpdateDifferences(diffs, spots, frame, previous_frame)
                             ELSE [raised |-> FALSE, diffs |-> diffs] } : TRUE
        us == CHOOSE r \in { IF sampling /\ ~ud.raised
                             THEN UpdateSpotStatuses(spots_status, spots, ud.diffs,
                                                     previous_frame, frame, outs,
                                                     diff_threshold, settings)
                             ELSE [raised |-> FALSE, status |-> spots_status,
                                   candidates |-> {}, classified |-> {},
                                   invocations |-> <<>>] } : TRUE
    IN [n |-> n, sampling |-> sampling, ud |-> ud, us |-> us,
        raised |-> (ud.raised \/ us.raised)]

\* the spots the classifier is invoked for when frame is submitted
Invoked(frame) == Pass(frame, [i \in 1..Len(spots) |-> Raises]).us.classified

\* The body of process_frame once it holds a frame: count it and, on a sampling
\* frame, run the update step; any exception is caught and None is returned.
SubmitFrame(frame, outs) ==
    \E p \in {Pass(frame, outs)} :
       /\ frame_number' = p.n
       /\ total_frames' = total_frames + 1
       /\ processed_frames' = IF p.sampling THEN processed_frames + 1 ELSE processed_frames
       /\ diffs' = p.ud.diffs
       /\ spots_status' = p.us.status
       /\ previous_frame' = IF p.sampling /\ ~p.raised THEN frame ELSE previous_frame
       /\ succeeded' = (succeeded \/ \E i \in p.us.classified : ~Failed(outs[i]))
       /\ last' = [op |-> "process_frame", received |-> TRUE,
                   shape |-> <<frame.ndim, frame.height, frame.width>>,
                   candidates |-> p.us.candidates, classified |-> p.us.classified,
                   invocations |-> p.us.invocations,
                   returned |-> [i \in p.us.classified |->
                                    Predict(CropSize(frame, spots[i]), outs[i],
                                            settings.CONFIDENCE_THRESHOLD)],
                   failed |-> {i \in p.us.classified : Failed(outs[i])},
                   ret |-> IF p.raised THEN "None" ELSE "frame",
                   stats |-> {},
                   drawn |-> IF p.raised THEN {} ELSE {AnnotateFrame(spots, p.us.status)}]
       /\ UNCHANGED <<config, spots>>

\* process_frame(frame) with a frame pushed by the caller
ProcessFramePush ==
    /\ frame_number < MaxFrames
    /\ \E frame \in Frames(DetectSpots(detector)) :
       \E outs \in [Invoked(frame) -> ModelOutputs] :
          SubmitFrame(frame, outs)
    /\ UNCHANGED <<cap, aside>>

\* process_frame() when the capture yields a frame
ProcessFrameRead ==
    /\ frame_number < MaxFrames
    /\ cap = "open"
    /\ \E frame \in {f \in Frames(DetectSpots(detector)) : f.ndim = 3} :
       \E outs \in [Invoked(frame) -> ModelOutputs] :
          SubmitFrame(frame, outs)
    /\ UNCHANGED <<cap, aside>>

\* process_frame() when the capture yields no frame (end of the stream, or a
\* released handle: ret is False), or when there is no capture (AttributeError,
\* caught)
ProcessFrameNoFrame ==
    /\ last' = Obs("process_frame", "None")
    /\ UNCHANGED <<config, spots, spots_status, diffs, previous_frame, frame_number,
                   total_frames, processed_frames, cap, succeeded, aside>>

\* what a successful initialize does to the engine
InitializeSucceeds ==
    /\ cap' = "open"
    /\ detector' = [detector EXCEPT !.spots = DetectSpots(detector)]
    /\ spots' = DetectSpots(detector)
    /\ spots_status' = [i \in 1..Len(DetectSpots(detector)) |-> UNKNOWN]
    /\ diffs' = [i \in 1..Len(DetectSpots(detector)) |-> NONE]
    /\ last' = Obs("initialize", "True")
    /\ UNCHANGED <<settings, processing_step, diff_threshold, previous_frame,
                   frame_number, total_frames, processed_frames, succeeded>>

\* initialize(video_path) or initialize(cap=cap), succeeding
Initialize ==
    /\ InitializeSucceeds
    /\ UNCHANGED aside

\* sum(1 for s in self.spots_status if s is v)
CountStatus(st, v) == Cardinality({i \in 1..Len(st) : st[i] = v})

\* a / b when b > 0, as the fraction it is
Ratio(a, b) == [num |-> a, den |-> b]

\* mutant: every status that is not Empty is counted as occupied
StatisticsOccupiedAsRest(sp, st, tf, pf, fn) ==
    [total_spots |-> Len(sp),
     available_spots |-> CountStatus(st, EMPTY),
     occupied_spots |-> Len(st) - CountStatus(st, EMPTY),
     unknown_spots |-> CountStatus(st, UNKNOWN),
     availability_rate |-> IF Len(sp) > 0 THEN Ratio(CountStatus(st, EMPTY), Len(sp))
                           ELSE Ratio(0, 1),
     total_frames |-> tf, processed_frames |-> pf, current_frame |-> fn]

\* the dictionary get_statistics builds from the spots sp, the statuses st and
\* the three counters
Statistics(sp, st, tf, pf, fn) ==
    LET available == CountStatus(st, EMPTY)
        occupied == CountStatus(st, OCCUPIED)
        unknown == CountStatus(st, UNKNOWN)
    IN [total_spots |-> Len(sp),
        available_spots |-> available,
        occupied_spots |-> occupied,
        unknown_spots |-> unknown,
        availability_rate |-> IF Len(sp) > 0 THEN Ratio(available, Len(sp))
                              ELSE Ratio(0, 1),
        total_frames |-> tf, processed_frames |-> pf, current_frame |-> fn]

\* mutant: reading the statistics is counted as a frame
GetStatisticsCounting ==
    /\ last' = [Obs("get_statistics", "stats") EXCEPT
                   !.stats = {Statistics(spots, spots_status, total_frames + 1,
                                         processed_frames, frame_number)}]
    /\ total_frames' = total_frames + 1
    /\ UNCHANGED <<config, spots, spots_status, diffs, previous_frame, frame_number,
                   processed_frames, cap, succeeded, aside>>

\* get_statistics()
GetStatistics ==
    /\ last' = [Obs("get_statistics", "stats") EXCEPT
                   !.stats = {Statistics(spots, spots_status, total_frames,
                                         processed_frames, frame_number)}]
    /\ UNCHANGED <<config, spots, spots_status, diffs, previous_frame, frame_number,
                   total_frames, processed_frames, cap, succeeded, aside>>

\* release()
Release ==
    /\ cap' = IF cap = "none" THEN cap ELSE "released"
    /\ last' = Obs("release", "None")
    /\ UNCHANGED <<config, spots, spots_status, diffs, previous_frame, frame_number,
                   total_frames, processed_frames, succeeded, aside>>

\* no buffer is tracked, no script runs, nothing is called directly
NoBuffers == [heap |-> <<>>, previous_frame |-> "None", annotated |-> "None"]
NoRun == [pc |-> "none", exit |-> "none"]
NoCall == [op |-> "none"]

\* processor.py:23 and config.py:27: diff_threshold, 0.4 by default, in tenths
DiffThresholds == {0, 4, 10}

\* the cadences of the model: every frame is sampled, or every second frame
Cadences == {1, 2}

\* the detectors of the model: a mask with two spots, one with a spot and a
\* component the size filter discards, one with no spot
Detectors ==
    { [mask |-> m, scale_coef |-> 1, spots |-> <<>>] : m \in Masks }

\* the state after VideoProcessor(detector, predictor, processing_step, diff_threshold)
Init ==
    /\ detector \in Detectors
    /\ settings \in [INVERT_PREDICTION : BOOLEAN, CONFIDENCE_THRESHOLD : {DefaultConfidence}]
    /\ processing_step \in Cadences
    /\ diff_threshold \in DiffThresholds
    /\ spots = <<>>
    /\ spots_status = <<>>
    /\ diffs = <<>>
    /\ previous_frame = NoFrame
    /\ frame_number = 0
    /\ total_frames = 0
    /\ processed_frames = 0
    /\ cap = "none"
    /\ succeeded = FALSE
    /\ last = Obs("init", "None")
    /\ buffers = NoBuffers
    /\ run = NoRun
    /\ call = NoCall

Next ==
    \/ Initialize
    \/ ProcessFramePush
    \/ ProcessFrameRead
    \/ ProcessFrameNoFrame
    \/ GetStatistics
    \/ Release

Spec == Init /\ [][Next]_vars

----------------------------------------------------------------------------
(* The image buffers of process_frame.  The engine's specification takes a  *)
(* frame for its value; here every array is an object with an identity, so  *)
(* that a write through one reference is seen through every other reference *)
(* to the same object.  The caller keeps one buffer, "frame", writes each    *)
(* new frame into it and submits it.                                        *)

\* the content of a buffer: the frame it holds and whether overlays were drawn
Content(px, overlay) == [px |-> px, overlay |-> overlay]

\* mutant: no copy is made, the reference to the source is kept
CopyBufferAliased(heap, src, dst) == [heap |-> heap, ref |-> src]

\* src.copy(): a new object dst with the content of src
CopyBuffer(heap, src, dst) == [heap |-> [heap EXCEPT ![dst] = heap[src]], ref |-> dst]

\* cv2.rectangle and cv2.putText write into the object they are given
DrawOverlays(heap, obj) == [heap EXCEPT ![obj].overlay = TRUE]

\* the buffers after process_frame(frame): the snapshot taken on a sampling pass
\* that ran to its end (processor.py:219), and the annotation of a copy of the
\* frame (processor.py:221) unless the call raised before
ProcessFrameBuffers(b, snapshot, annotate) ==
    LET c1 == IF snapshot THEN CopyBuffer(b.heap, "frame", "snapshot")
              ELSE [heap |-> b.heap, ref |-> b.previous_frame]
        c2 == IF annotate THEN CopyBuffer(c1.heap, "frame", "annotated")
              ELSE [heap |-> c1.heap, ref |-> "None"]
    IN [heap |-> IF annotate THEN DrawOverlays(c2.heap, c2.ref) ELSE c2.heap,
        previous_frame |-> c1.ref,
        annotated |-> c2.ref]

\* the frame self.previous_frame refers to, as the engine reads it
SnapshotContent(b) ==
    IF b.previous_frame = "None" THEN Content(NoFrame, FALSE)
    ELSE b.heap[b.previous_frame]

\* process_frame(frame) with the caller's buffer
BufferProcessFrame ==
    /\ frame_number < MaxFrames
    /\ \E outs \in [Invoked(buffers.heap["frame"].px) -> ModelOutputs] :
          /\ SubmitFrame(buffers.heap["frame"].px, outs)
          /\ \E p \in {Pass(buffers.heap["frame"].px, outs)} :
                buffers' = ProcessFrameBuffers(buffers, p.sampling /\ ~p.raised, ~p.raised)
    /\ UNCHANGED <<cap, run, call>>

\* the caller writes the next frame into its buffer; the engine sees the write
\* if previous_frame refers to that buffer
CallerWritesFrame ==
    /\ \E f \in {g \in Frames(DetectSpots(detector)) : g.ndim = 3} :
          /\ buffers' = [buffers EXCEPT !.heap["frame"] = Content(f, FALSE)]
          /\ previous_frame' = IF buffers.previous_frame = "frame" THEN f
                                ELSE previous_frame
    /\ last' = Obs("write_frame", "None")
    /\ UNCHANGED <<config, spots, spots_status, diffs, frame_number, total_frames,
                   processed_frames, cap, succeeded, run, call>>

\* a detector with two spots, an engine on it, and the caller's buffer holding
\* a first frame
InitBuffers ==
    /\ detector = [mask |-> <<Box(10, 10, 21, 21), Box(50, 50, 21, 21)>>,
                   scale_coef |-> 1, spots |-> <<>>]
    /\ settings = [INVERT_PREDICTION |-> FALSE, CONFIDENCE_THRESHOLD |-> DefaultConfidence]
    /\ processing_step \in Cadences
    /\ diff_threshold = 4
    /\ spots = <<>>
    /\ spots_status = <<>>
    /\ diffs = <<>>
    /\ previous_frame = NoFrame
    /\ frame_number = 0
    /\ total_frames = 0
    /\ processed_frames = 0
    /\ cap = "none"
    /\ succeeded = FALSE
    /\ last = Obs("init", "None")
    /\ \E f \in {g \in Frames(DetectSpots(detector)) : g.ndim = 3} :
          buffers = [heap |-> [frame |-> Content(f, FALSE),
                               snapshot |-> Content(NoFrame, FALSE),
                               annotated |-> Content(NoFrame, FALSE)],
                     previous_frame |-> "None", annotated |-> "None"]
    /\ run = NoRun
    /\ call = NoCall

NextBuffers ==
    \/ Initialize
    \/ BufferProcessFrame
    \/ CallerWritesFrame

SpecBuffers == InitBuffers /\ [][NextBuffers]_vars

----------------------------------------------------------------------------
(* run.process_video, from its call of processor.initialize on: the video    *)
(* file exists and the detector and the predictor were built.  run.pc is    *)
(* the position of the script, run.exit the way the frame loop was left.    *)

\* how initialize(video_path) can fail once cv2.VideoCapture was called: the
\* capture is not opened; it is opened with invalid properties and released
\* (processor.py:162-166); or an exception is raised after it was opened with
\* valid properties (detect_spots, or anything else) and caught by the handlers
\* of processor.py:185-190
InitializeFailures == {"not_opened", "invalid_properties", "raised"}

\* self.cap after a failed initialize
CapAfterFailure(failure) ==
    IF failure = "not_opened" THEN "unopened"
    ELSE IF failure = "invalid_properties" THEN "released"
    ELSE "open"

\* run.py:66-68: initialize succeeds, or it fails and process_video returns
RunInitialize ==
    /\ run.pc = "initialize"
    /\ \/ /\ InitializeSucceeds
          /\ run' = [run EXCEPT !.pc = "setup"]
       \/ \E failure \in InitializeFailures :
             /\ cap' = CapAfterFailure(failure)
             /\ last' = Obs("initialize", "False")
             /\ run' = [pc |-> "done", exit |-> "initialize_failed"]
             /\ UNCHANGED <<config, spots, spots_status, diffs, previous_frame,
                            frame_number, total_frames, processed_frames, succeeded>>
    /\ UNCHANGED <<buffers, call>>

\* run.py:70-82: the writer is set up and the try block entered, or a
\* KeyboardInterrupt arrives before the try block and leaves process_video
RunSetup ==
    /\ run.pc = "setup"
    /\ \/ run' = [run EXCEPT !.pc = "loop"]
       \/ run' = [pc |-> "done", exit |-> "interrupt_before_try"]
    /\ UNCHANGED <<config, spots, spots_status, diffs, previous_frame, frame_number,
                   total_frames, processed_frames, cap, succeeded, last, buffers, call>>

\* run.py:84-98: process_frame() reads a frame and returns it annotated; the
\* loop goes on unless the user presses q
RunProcessFrame ==
    /\ run.pc = "loop"
    /\ frame_number < MaxFrames
    /\ \E frame \in {f \in Frames(spots) : f.ndim = 3} :
       \E outs \in [Invoked(frame) -> ModelOutputs] :
          SubmitFrame(frame, outs)
    /\ \/ run' = run
       \/ run' = [pc |-> "statistics", exit |-> "user_stop"]
    /\ UNCHANGED <<cap, buffers, call>>

\* mutant: the read that yields no frame is counted as a frame
RunEndOfStreamCounted ==
    /\ run.pc = "loop"
    /\ last' = Obs("process_frame", "None")
    /\ frame_number' = frame_number + 1
    /\ run' = [pc |-> "statistics", exit |-> "end_of_stream"]
    /\ UNCHANGED <<config, spots, spots_status, diffs, previous_frame,
                   total_frames, processed_frames, cap, succeeded, buffers, call>>

\* run.py:84-87: the capture has no more frames, process_frame() returns None
\* (processor.py:204-207) and the loop is left
RunEndOfStream ==
    /\ run.pc = "loop"
    /\ last' = Obs("process_frame", "None")
    /\ run' = [pc |-> "statistics", exit |-> "end_of_stream"]
    /\ UNCHANGED <<config, spots, spots_status, diffs, previous_frame, frame_number,
                   total_frames, processed_frames, cap, succeeded, buffers, call>>

\* run.py:103-106: a KeyboardInterrupt, or another exception (of the writer or
\* the display), is raised inside the try block
RunRaises ==
    /\ run.pc \in {"loop", "statistics"}
    /\ \E exit \in {"interrupt", "exception"} :
          run' = [pc |-> "finally", exit |-> exit]
    /\ UNCHANGED <<config, spots, spots_status, diffs, previous_frame, frame_number,
                   total_frames, processed_frames, cap, succeeded, last, buffers, call>>

\* run.py:100-101: the statistics are logged
RunStatistics ==
    /\ run.pc = "statistics"
    /\ last' = [Obs("get_statistics", "stats") EXCEPT
                   !.stats = {Statistics(spots, spots_status, total_frames,
                                         processed_frames, frame_number)}]
    /\ run' = [run EXCEPT !.pc = "finally"]
    /\ UNCHANGED <<config, spots, spots_status, diffs, previous_frame, frame_number,
                   total_frames, processed_frames, cap, succeeded, buffers, call>>

\* run.py:106-111: finally, processor.release()
RunFinally ==
    /\ run.pc = "finally"
    /\ cap' = IF cap = "none" THEN cap ELSE "released"
    /\ last' = Obs("release", "None")
    /\ run' = [run EXCEPT !.pc = "done"]
    /\ UNCHANGED <<config, spots, spots_status, diffs, previous_frame, frame_number,
                   total_frames, processed_frames, succeeded, buffers, call>>

\* process_video has built the processor with the settings' cadence and threshold
InitRun ==
    /\ detector \in Detectors
    /\ settings = [INVERT_PREDICTION |-> FALSE, CONFIDENCE_THRESHOLD |-> DefaultConfidence]
    /\ processing_step \in Cadences
    /\ diff_threshold = 4
    /\ spots = <<>>
    /\ spots_status = <<>>
    /\ diffs = <<>>
    /\ previous_frame = NoFrame
    /\ frame_number = 0
    /\ total_frames = 0
    /\ processed_frames = 0
    /\ cap = "none"
    /\ succeeded = FALSE
    /\ last = Obs("init", "None")
    /\ buffers = NoBuffers
    /\ run = [pc |-> "initialize", exit |-> "none"]
    /\ call = NoCall

NextRun ==
    \/ RunInitialize
    \/ RunSetup
    \/ RunProcessFrame
    \/ RunEndOfStream
    \/ RunRaises
    \/ RunStatistics
    \/ RunFinally

SpecRun == InitRun /\ [][NextRun]_vars

\* the script is sequential and get_statistics and release return: once the
\* loop is left, the statements after it and the finally block are executed
SpecRunFair == SpecRun /\ WF_vars(RunStatistics) /\ WF_vars(RunFinally)

----------------------------------------------------------------------------
(* Direct calls of the classifier and of ParkingSpotDetector.get_spot_roi,  *)
(* with arguments drawn from small sets.                                    *)

\* mutant: the spot is cropped without validation
GetSpotRoiUnchecked(frame, spot) ==
    {[shape |-> CropShape(frame, spot), x |-> spot.x, y |-> spot.y]}

\* get_spot_roi(frame, spot) on a frame with a channel axis: None (no crop), or
\* the crop frame[y1:y1 + h, x1:x1 + w, :], given by its shape and its origin
GetSpotRoi(frame, spot) ==
    IF \/ spot.x < 0
       \/ spot.y < 0
       \/ spot.x + spot.w > frame.width
       \/ spot.y + spot.h > frame.height
    THEN {}
    ELSE {[shape |-> CropShape(frame, spot), x |-> spot.x, y |-> spot.y]}

\* confidence thresholds, in tenths: the default and a stricter one
ConfidenceThresholds == {DefaultConfidence, 9}

\* an image with what the model does when it is invoked for it: None, an empty
\* array, or an array of 15 x 15 x 3 values for which the model gives class
\* probabilities or a label, or for which resizing or inference raises
BatchEntries ==
    { [img |-> NoneImage, out |-> Raises], [img |-> ArrayImage(0), out |-> Raises] }
    \cup { [img |-> ArrayImage(675), out |-> o] :
               o \in ModelOutputs \cup {Label(0), Label(1), Label(2)} }

\* the lists of at most n entries
RECURSIVE BatchesUpTo(_)
BatchesUpTo(n) ==
    IF n = 0 THEN {<<>>}
    ELSE BatchesUpTo(n - 1)
         \cup {Append(b, e) : b \in {c \in BatchesUpTo(n - 1) : Len(c) = n - 1},
                              e \in BatchEntries}

\* frames and spots around the edges of a frame
RoiFrames == { [ndim |-> 3, height |-> hw[1], width |-> hw[2], mean |-> <<>>] :
                  hw \in {<<40, 40>>, <<40, 60>>} }
RoiSpots == { Box(x, y, w, h) : x \in {-1, 0, 19, 30}, y \in {-1, 0, 19, 30},
                                w \in {11, 21}, h \in {11, 21} }

\* predictor.predict(spot_image, confidence_threshold) on the first image
PredictCall ==
    /\ call.op = "none" /\ call.args = "images" /\ Len(call.spot_images) > 0
    /\ call' = [call EXCEPT !.op = "predict",
                            !.result = <<PredictCrop(call.spot_images[1].img,
                                                     call.spot_images[1].out,
                                                     call.confidence_threshold)>>]
    /\ UNCHANGED <<config, spots, spots_status, diffs, previous_frame, frame_number,
                   total_frames, processed_frames, cap, succeeded, last, buffers, run>>

\* predictor.predict_batch(spot_images)
PredictBatchCall ==
    /\ call.op = "none" /\ call.args = "images"
    /\ call' = [call EXCEPT !.op = "predict_batch",
                            !.result = PredictBatch(call.spot_images)]
    /\ UNCHANGED <<config, spots, spots_status, diffs, previous_frame, frame_number,
                   total_frames, processed_frames, cap, succeeded, last, buffers, run>>

\* detector.get_spot_roi(frame, spot)
GetSpotRoiCall ==
    /\ call.op = "none" /\ call.args = "roi"
    /\ call' = [call EXCEPT !.op = "get_spot_roi",
                            !.result = GetSpotRoi(call.frame, call.spot)]
    /\ UNCHANGED <<config, spots, spots_status, diffs, previous_frame, frame_number,
                   total_frames, processed_frames, cap, succeeded, last, buffers, run>>

\* a predictor with a loaded model, a detector, and the arguments of one call
InitCalls ==
    /\ detector = [mask |-> <<>>, scale_coef |-> 1, spots |-> <<>>]
    /\ settings = [INVERT_PREDICTION |-> FALSE, CONFIDENCE_THRESHOLD |-> DefaultConfidence]
    /\ processing_step = 1
    /\ diff_threshold = 4
    /\ spots = <<>>
    /\ spots_status = <<>>
    /\ diffs = <<>>
    /\ previous_frame = NoFrame
    /\ frame_number = 0
    /\ total_frames = 0
    /\ processed_frames = 0
    /\ cap = "none"
    /\ succeeded = FALSE
    /\ last = Obs("init", "None")
    /\ buffers = NoBuffers
    /\ run = NoRun
    /\ call \in { [op |-> "none", args |-> "images", spot_images |-> b,
                    confidence_threshold |-> t, result |-> <<>>] :
                      b \in BatchesUpTo(MaxBatch), t \in ConfidenceThresholds }
               \cup { [op |-> "none", args |-> "roi", frame |-> f, spot |-> sp,
                       result |-> {}] : f \in RoiFrames, sp \in RoiSpots }

NextCalls ==
    \/ PredictCall
    \/ PredictBatchCall
    \/ GetSpotRoiCall

SpecCalls == InitCalls /\ [][NextCalls]_vars

----------------------------------------------------------------------------
(* The engine at the edges of the frame: three spots on a diagonal and       *)
(* frames of three sizes, so that from one sampled frame to the next a crop  *)
(* can keep its shape, change it, or be empty both times, in every           *)
(* combination the order of the spots allows.                               *)

EdgeFrameSizes == {200, 60, 40}

\* the spot lists: a spot inside every frame, one that the frame of 60 cuts and
\* the frame of 40 leaves out, one that only the frame of 200 holds; in both
\* orders
EdgeMasks ==
    { <<Box(10, 10, 21, 21), Box(50, 50, 21, 21), Box(100, 100, 21, 21)>>,
      <<Box(100, 100, 21, 21), Box(50, 50, 21, 21), Box(10, 10, 21, 21)>> }

\* colour frames of each size, with every combination of crop means
EdgeFrames(sp) ==
    { f \in [ndim : {3}, height : EdgeFrameSizes, width : EdgeFrameSizes,
             mean : [1..Len(sp) -> 0..Len(sp)]] :
        /\ f.height = f.width
        /\ \A i \in 1..Len(sp) :
               /\ f.mean[i] \in PixelMeans(i)
               /\ CropSize(f, sp[i]) = 0 => f.mean[i] = 0 }

\* process_frame(frame) with a frame of one of the three sizes; the classifier
\* finds every spot empty
ProcessFrameEdge ==
    /\ frame_number < MaxFrames
    /\ \E frame \in EdgeFrames(DetectSpots(detector)) :
       \E outs \in [Invoked(frame) -> {Proba(8, 2)}] :
          SubmitFrame(frame, outs)
    /\ UNCHANGED <<cap, aside>>

InitEdges ==
    /\ detector \in { [mask |-> m, scale_coef |-> 1, spots |-> <<>>] : m \in EdgeMasks }
    /\ settings = [INVERT_PREDICTION |-> FALSE, CONFIDENCE_THRESHOLD |-> DefaultConfidence]
    /\ processing_step = 1
    /\ diff_threshold \in DiffThresholds
    /\ spots = <<>>
    /\ spots_status = <<>>
    /\ diffs = <<>>
    /\ previous_frame = NoFrame
    /\ frame_number = 0
    /\ total_frames = 0
    /\ processed_frames = 0
    /\ cap = "none"
    /\ succeeded = FALSE
    /\ last = Obs("init", "None")
    /\ buffers = NoBuffers
    /\ run = NoRun
    /\ call = NoCall

NextEdges ==
    \/ Initialize
    \/ ProcessFrameEdge

SpecEdges == InitEdges /\ [][NextEdges]_vars

----------------------------------------------------------------------------
(* The region extractor on its own: masks of up to two components of every  *)
(* combination of sizes around the filter, at each scale, extracted by      *)
(* detect_spots() directly and through initialize().                        *)

\* widths and heights of the components: below, at and above the size filter,
\* before and after scaling by 2
ComponentSizes == {5, 6, 10, 11, 21}

\* the component with label i of a mask: its place is fixed by its label, so
\* that components are disjoint
ComponentAt(i, w, h) == Box(10 + 40 * (i - 1), 10 + 40 * (i - 1), w, h)

MasksOfSizes ==
    {<<>>}
    \cup { <<ComponentAt(1, w, h)>> : w \in ComponentSizes, h \in ComponentSizes }
    \cup { <<ComponentAt(1, c[1], c[2]), ComponentAt(2, c[3], c[4])>> :
               c \in ComponentSizes \X ComponentSizes \X ComponentSizes \X ComponentSizes }

\* detector.detect_spots()
DetectSpotsCall ==
    /\ detector' = [detector EXCEPT !.spots = DetectSpots(detector)]
    /\ last' = Obs("detect_spots", "spots")
    /\ UNCHANGED <<settings, processing_step, diff_threshold, spots, spots_status,
                   diffs, previous_frame, frame_number, total_frames,
                   processed_frames, cap, succeeded, aside>>

\* ParkingSpotDetector(mask_path, scale_coef) and a VideoProcessor on it
InitDetector ==
    /\ detector \in [mask : MasksOfSizes, scale_coef : ScaleCoefs, spots : {<<>>}]
    /\ settings = [INVERT_PREDICTION |-> FALSE, CONFIDENCE_THRESHOLD |-> DefaultConfidence]
    /\ processing_step = 1
    /\ diff_threshold = 4
    /\ spots = <<>>
    /\ spots_status = <<>>
    /\ diffs = <<>>
    /\ previous_frame = NoFrame
    /\ frame_number = 0
    /\ total_frames = 0
    /\ processed_frames = 0
    /\ cap = "none"
    /\ succeeded = FALSE
    /\ last = Obs("init", "None")
    /\ buffers = NoBuffers
    /\ run = NoRun
    /\ call = NoCall

NextDetector ==
    \/ DetectSpotsCall
    \/ Initialize

SpecDetector == InitDetector /\ [][NextDetector]_vars

----------------------------------------------------------------------------
(* Properties *)

(* predict on one crop for which the model reports class probabilities,     *)
(* over the probabilities and the confidence thresholds.                    *)

\* the first two entries of a row of predict_proba, in tenths: two
\* probabilities whose sum is at most 1
ProbaPairs == { Proba(eo[1], eo[2]) : eo \in {p \in (0..10) \X (0..10) : p[1] + p[2] <= 10} }

\* confidence thresholds below, at and above one half, in tenths
ProbaThresholds == {3, DefaultConfidence, 6, 9}

InitProba ==
    /\ detector = [mask |-> <<>>, scale_coef |-> 1, spots |-> <<>>]
    /\ settings = [INVERT_PREDICTION |-> FALSE, CONFIDENCE_THRESHOLD |-> DefaultConfidence]
    /\ processing_step = 1
    /\ diff_threshold = 4
    /\ spots = <<>>
    /\ spots_status = <<>>
    /\ diffs = <<>>
    /\ previous_frame = NoFrame
    /\ frame_number = 0
    /\ total_frames = 0
    /\ processed_frames = 0
    /\ cap = "none"
    /\ succeeded = FALSE
    /\ last = Obs("init", "None")
    /\ buffers = NoBuffers
    /\ run = NoRun
    /\ call \in { [op |-> "none", args |-> "images",
                    spot_images |-> <<[img |-> ArrayImage(675), out |-> out]>>,
                    confidence_threshold |-> t, result |-> <<>>] :
                      out \in ProbaPairs, t \in ProbaThresholds }

NextProba == PredictCall

SpecProba == InitProba /\ [][NextProba]_vars

----------------------------------------------------------------------------
(* The sampling pass with its classifications taken in another order: next  *)
(* to what process_frame does, the loop of _update_spot_statuses is run     *)
(* over a permutation of the candidate list, from the same status table.    *)

\* the orders in which the spots of the set s can be taken
Orders(s) ==
    { o \in [1..Cardinality(s) -> s] :
          \A i, j \in 1..Cardinality(s) : i # j => o[i] # o[j] }

\* what the model does for a crop in these runs: it finds the spot empty, or
\* occupied
OrderOutputs == {Proba(8, 2), Proba(2, 8)}

\* frames that hold every spot, or only the first two
OrderFrameSizes == {200, 60}

\* the third spot stays dark
OrderFrames(sp) ==
    {f \in EdgeFrames(sp) : f.height \in OrderFrameSizes /\ f.mean[Len(sp)] = 0}

\* process_frame(frame), and beside it the statuses the loop of
\* _update_spot_statuses gives when it takes the candidates in the order `order`
ProcessFrameReordered ==
    /\ frame_number < MaxFrames
    /\ \E frame \in OrderFrames(DetectSpots(detector)) :
       \E outs \in [Invoked(frame) -> OrderOutputs] :
          /\ SubmitFrame(frame, outs)
          /\ \E order \in Orders(last'.candidates) :
                 call' = [op |-> "reordered", order |-> order,
                          status |-> UpdateFrom(spots_status, spots, order, 1,
                                                frame, outs, settings)]
    /\ UNCHANGED <<cap, buffers, run>>

InitOrder ==
    /\ detector = [mask |-> <<Box(10, 10, 21, 21), Box(50, 50, 21, 21),
                              Box(100, 100, 21, 21)>>,
                   scale_coef |-> 1, spots |-> <<>>]
    /\ settings \in [INVERT_PREDICTION : BOOLEAN, CONFIDENCE_THRESHOLD : {DefaultConfidence}]
    /\ processing_step = 1
    /\ diff_threshold = 4
    /\ spots = <<>>
    /\ spots_status = <<>>
    /\ diffs = <<>>
    /\ previous_frame = NoFrame
    /\ frame_number = 0
    /\ total_frames = 0
    /\ processed_frames = 0
    /\ cap = "none"
    /\ succeeded = FALSE
    /\ last = Obs("init", "None")
    /\ buffers = NoBuffers
    /\ run = NoRun
    /\ call = NoCall

NextOrder ==
    \/ Initialize
    \/ ProcessFrameReordered

SpecOrder == InitOrder /\ [][NextOrder]_vars

----------------------------------------------------------------------------
\* the step is a call of process_frame that received a frame
FrameStep == last'.op = "process_frame" /\ last'.received

\* the step is a frame submission on which the update step ran (a sampling frame)
SamplingStep == FrameStep /\ processed_frames' # processed_frames

AllSpots == 1..Len(spots)

\* C1: every call of process_frame that receives a frame increases frame_number
\* by exactly 1, also when the frame is no sampling frame or its processing
\* fails, and no step decreases frame_number.
C1_FrameNumberCounts ==
    [][ /\ FrameStep => frame_number' = frame_number + 1
        /\ frame_number' >= frame_number ]_vars

\* a second frame was counted although its processing failed (None returned)
C1_Witness ==
    /\ last.op = "process_frame" /\ last.received /\ last.ret = "None"
    /\ frame_number = 2

\* C2: on each submitted frame processed_frames increases by exactly 1 if and
\* only if the new frame_number mod processing_step is 0, and is unchanged on
\* every other frame.
C2_SampledCountCadence ==
    [][ FrameStep =>
          IF frame_number' % processing_step = 0
          THEN processed_frames' = processed_frames + 1
          ELSE processed_frames' = processed_frames ]_vars

\* three frames submitted at cadence 2: exactly one of them was sampled
C2_Witness ==
    /\ last.op = "process_frame" /\ last.received
    /\ processing_step = 2 /\ frame_number = 3 /\ processed_frames = 1

\* C3: on a sampling frame with no previous sampled frame stored, the candidate
\* set is the set of all spot indices.
C3_FirstSampleChecksAll ==
    [][ (SamplingStep /\ previous_frame = NoFrame) => last'.candidates = AllSpots ]_vars

\* the first sampling pass of an initialized engine with two spots took place
C3_Witness ==
    /\ last.op = "process_frame" /\ last.received /\ last.ret = "frame"
    /\ processed_frames = 1 /\ frame_number % processing_step = 0
    /\ Len(spots) = 2 /\ last.candidates = {1, 2}

\* the step is a sampling frame after the first whose update step ran to its end
\* on an engine with spots: every magnitude was recomputed
LaterSamplingStep ==
    /\ SamplingStep /\ previous_frame # NoFrame
    /\ last'.ret = "frame" /\ Len(spots) > 0

\* C4: on a sampling frame that is not the first, when the maximum magnitude is
\* 0 the candidate set is all spots and every spot is re-classified, none skipped.
C4_ZeroMaxReclassifiesAll ==
    [][ (LaterSamplingStep /\ PyMax(diffs') = Num(0)) =>
            /\ last'.candidates = AllSpots
            /\ last'.classified = AllSpots ]_vars

\* the spots whose magnitude is >= diff_threshold * M
AtLeastThreshold(df, M, t) ==
    {i \in 1..Len(df) : FGeTenths(df[i], FMulTenths(M, t))}

\* C5: on a sampling frame that is not the first and whose maximum magnitude M
\* is > 0, the candidate set is the set of spots whose magnitude is
\* >= diff_threshold * M, and all spots only if that set is empty.
C5_ThresholdedCandidates ==
    [][ (LaterSamplingStep /\ FGt(PyMax(diffs'), Num(0))) =>
            last'.candidates =
                IF AtLeastThreshold(diffs', PyMax(diffs'), diff_threshold) = {}
                THEN AllSpots
                ELSE AtLeastThreshold(diffs', PyMax(diffs'), diff_threshold) ]_vars

\* a later sampling pass in which both spots changed, spot 1 by less than
\* diff_threshold * M, selected spot 2 only
C5_Witness ==
    /\ last.op = "process_frame" /\ last.ret = "frame" /\ processed_frames >= 2
    /\ frame_number % processing_step = 0
    /\ diff_threshold = 10
    /\ diffs = <<Num(1), Num(2)>> /\ last.candidates = {2}

\* C6: during a sampling pass every spot outside the candidate set keeps the
\* status it had before the pass.
C6_NonCandidatesKeepStatus ==
    [][ SamplingStep =>
            \A i \in AllSpots :
                i \notin last'.candidates => spots_status'[i] = spots_status[i] ]_vars

\* a pass re-classified spot 2 only and spot 1 still holds the Empty it was given
\* by an earlier pass
C6_Witness ==
    /\ last.op = "process_frame" /\ last.ret = "frame" /\ processed_frames >= 2
    /\ frame_number % processing_step = 0
    /\ Len(spots) = 2 /\ last.candidates = {2} /\ last.classified = {2}
    /\ spots_status = <<EMPTY, OCCUPIED>>

\* C7: when the classifier fails for a candidate spot during a sampling pass,
\* that spot's status becomes Occupied and the frame update completes: the
\* snapshot is replaced and the annotated frame is returned.
C7_FailureDefaultsToOccupied ==
    [][ (SamplingStep /\ last'.failed # {}) =>
            /\ \A i \in last'.failed : spots_status'[i] = OCCUPIED
            /\ last'.ret = "frame"
            /\ previous_frame' # NoFrame ]_vars

\* C8, for a first pass that invokes the classifier for every spot: while no
\* classification has succeeded, every spot is Occupied after the first sampling
\* pass, and an Occupied spot stays Occupied over every later frame, in every
\* configuration.
C8_AlwaysFailingConverges ==
    [][ (FrameStep /\ ~succeeded' /\ cap # "none") =>
            /\ (SamplingStep /\ previous_frame = NoFrame /\ last'.classified = AllSpots)
                   => \A i \in AllSpots : spots_status'[i] = OCCUPIED
            /\ \A i \in AllSpots :
                   spots_status[i] = OCCUPIED => spots_status'[i] = OCCUPIED ]_vars

\* C9: after the first sampling pass of an initialized engine no spot is Unknown:
\* unknown == 0 and available + occupied == the number of spots.
C9_FirstPassLeavesNoUnknown ==
    [][ (SamplingStep /\ previous_frame = NoFrame /\ last'.ret = "frame" /\ cap # "none") =>
            /\ CountStatus(spots_status', UNKNOWN) = 0
            /\ CountStatus(spots_status', EMPTY) + CountStatus(spots_status', OCCUPIED)
                   = Len(spots) ]_vars

\* the step is a later sampling pass in which exactly spot c changed: its
\* magnitude is a number > 0 and every other spot's magnitude is 0
OnlySpotChanged(c) ==
    /\ LaterSamplingStep
    /\ c \in AllSpots
    /\ diffs'[c].k = "num" /\ diffs'[c].v > 0
    /\ \A j \in AllSpots \ {c} : diffs'[j] = Num(0)

\* in that pass only spot c is a candidate; the others are not classified and
\* keep their status
OnlyChangedSpotChecked(c) ==
    /\ last'.candidates = {c}
    /\ \A j \in AllSpots \ {c} :
           j \notin last'.classified /\ spots_status'[j] = spots_status[j]

\* C10 as stated: for every diff_threshold below 1.0
C10_Original ==
    [][ \A c \in AllSpots :
            (OnlySpotChanged(c) /\ diff_threshold < 10) => OnlyChangedSpotChecked(c) ]_vars

\* C10, amended: for every diff_threshold below 1.0 with diff_threshold * M > 0,
\* that is 0 < diff_threshold < 1.0
C10_OnlyChangedSpotChecked ==
    [][ \A c \in AllSpots :
            (OnlySpotChanged(c) /\ diff_threshold < 10 /\ diff_threshold * diffs'[c].v > 0)
                => OnlyChangedSpotChecked(c) ]_vars

\* at diff_threshold 0.4 a later pass found only spot 2 changed and checked it
\* alone, spot 1 keeping its Empty
C10_Witness ==
    /\ last.op = "process_frame" /\ last.ret = "frame" /\ processed_frames >= 2
    /\ frame_number % processing_step = 0
    /\ diff_threshold = 4
    /\ diffs = <<Num(0), Num(2)>>
    /\ last.candidates = {2} /\ last.classified = {2}
    /\ spots_status[1] = EMPTY

\* the frame received by the step disagrees with the coordinate space of the
\* spots: it has no channel axis, or some spot rectangle does not fit inside it
FrameMismatch ==
    \/ last'.shape[1] # 3
    \/ \E i \in AllSpots :
           \/ spots[i].y + spots[i].h > last'.shape[2]
           \/ spots[i].x + spots[i].w > last'.shape[3]

\* C11: on an engine with spots, a submitted frame whose dimensions disagree with
\* the spot regions is rejected: frame_number advances by 1 and the statuses, the magnitudes, the
\* previous-frame snapshot and processed_frames are left as they were.
C11_MismatchRejected ==
    [][ (FrameStep /\ Len(spots) > 0 /\ FrameMismatch) =>
            /\ frame_number' = frame_number + 1
            /\ UNCHANGED <<spots_status, diffs, previous_frame, processed_frames>> ]_vars

\* C12: once release() has been called, no call of process_frame, with a pushed
\* frame or reading from the capture, changes frame_number, processed_frames,
\* the statuses, the magnitudes or the previous-frame snapshot.
C12_ReleasedIsTerminal ==
    [][ (cap = "released" /\ last'.op = "process_frame") =>
            UNCHANGED <<frame_number, processed_frames, spots_status, diffs,
                        previous_frame>> ]_vars

\* C13: in every state after initialization the status table and the magnitude
\* table have one entry per spot: len(spots_status) == len(diffs) == len(spots).
C13_TablesAligned ==
    cap # "none" => (Len(spots_status) = Len(spots) /\ Len(diffs) = Len(spots))

\* statistics were read from a released engine with two spots whose magnitudes
\* had been computed by a second sampling pass
C13_Witness ==
    /\ last.op = "get_statistics" /\ cap = "released"
    /\ Len(spots) = 2 /\ processed_frames >= 2
    /\ \A i \in 1..Len(diffs) : diffs[i].k = "num"
    /\ \A i \in 1..Len(spots_status) : spots_status[i] # UNKNOWN

\* the step is a sampling pass that had a previous sampled frame to compare with
\* and ran to its end on an initialized engine: a second or later sampling pass
SecondPassStep ==
    SamplingStep /\ previous_frame # NoFrame /\ last'.ret = "frame" /\ cap # "none"

\* C14: a successful initialize() leaves every status Unknown and every
\* magnitude undefined; the magnitudes stay undefined over every frame that is
\* not a second sampling pass, and after a second sampling pass every magnitude
\* is a defined non-negative value (a number >= 0, or inf).
C14_MagnitudesDefinedBySecondPass ==
    [][ /\ (last'.op = "initialize" /\ last'.ret = "True") =>
               /\ \A i \in 1..Len(spots_status') : spots_status'[i] = UNKNOWN
               /\ \A i \in 1..Len(diffs') : diffs'[i] = NONE
        /\ (FrameStep /\ ~SecondPassStep) =>
               ((\A i \in 1..Len(diffs) : diffs[i] = NONE)
                    => \A i \in 1..Len(diffs') : diffs'[i] = NONE)
        /\ SecondPassStep =>
               \A i \in 1..Len(diffs') :
                   \/ diffs'[i].k = "num" /\ diffs'[i].v >= 0
                   \/ diffs'[i].k = "inf" ]_vars

\* C15: initialize() does not succeed when no component of the mask survives
\* the size filter: the engine is never Ready with zero spots.
C15_NoSpotsNeverReady ==
    ~(last.op = "initialize" /\ last.ret = "True" /\ Len(spots) = 0)

\* the step is an extraction: detect_spots() called directly or by initialize()
DetectStep == last'.op \in {"detect_spots", "initialize"}

\* box b with its four values multiplied by s
Times(b, s) == [x |-> s * b.x, y |-> s * b.y, w |-> s * b.w, h |-> s * b.h]

\* box b exceeds the 10-pixel filter in width and in height
ExceedsFilter(b) == b.w > 10 /\ b.h > 10

\* C16: for a mask whose k components all exceed the filter (in the coordinates
\* of the extraction), detect_spots returns exactly k regions, region i being
\* the bounding box (x, y, width, height) of component i in those coordinates,
\* and a call that follows a call on the same mask returns the same list.
C16_OneRegionPerComponent ==
    [][ DetectStep =>
          /\ (\A i \in 1..Len(detector.mask) :
                   ExceedsFilter(Times(detector.mask[i], detector.scale_coef)))
                => /\ Len(detector'.spots) = Len(detector.mask)
                   /\ \A i \in 1..Len(detector.mask) :
                          /\ DOMAIN detector'.spots[i] = {"x", "y", "w", "h"}
                          /\ detector'.spots[i] =
                                 Times(detector.mask[i], detector.scale_coef)
          /\ last.op \in {"detect_spots", "initialize"}
                => detector'.spots = detector.spots ]_vars

\* a mask of two components above the filter gave its two bounding boxes, in
\* the order of the labels
C16_Witness ==
    /\ last.op = "initialize" /\ detector.scale_coef = 1
    /\ detector.mask = <<Box(10, 10, 21, 21), Box(50, 50, 11, 21)>>
    /\ detector.spots = <<Box(10, 10, 21, 21), Box(50, 50, 11, 21)>>
    /\ spots = detector.spots

\* component i of the mask has a region in the list
HasRegion(list, i) ==
    \E j \in 1..Len(list) :
        /\ list[j].x = detector.scale_coef * detector.mask[i].x
        /\ list[j].y = detector.scale_coef * detector.mask[i].y

\* C17: detect_spots discards exactly the components whose scaled width or
\* scaled height is <= 10 and keeps every other component.
C17_FilterAtTen ==
    [][ DetectStep =>
          /\ \A i \in 1..Len(detector.mask) :
                 HasRegion(detector'.spots, i) <=>
                     ~ \/ detector.scale_coef * detector.mask[i].w <= 10
                       \/ detector.scale_coef * detector.mask[i].h <= 10
          /\ Len(detector'.spots) =
                 Cardinality({i \in 1..Len(detector.mask) :
                                 HasRegion(detector'.spots, i)}) ]_vars

\* a component 10 wide was discarded and one of 11 x 11 was kept
C17_Witness ==
    /\ last.op = "detect_spots" /\ detector.scale_coef = 1
    /\ detector.mask = <<Box(10, 10, 10, 21), Box(50, 50, 11, 11)>>
    /\ detector.spots = <<Box(50, 50, 11, 11)>>

\* C18: the boxes returned at scale s are the component boxes taken at scale 1
\* with x, y, width and height multiplied by s, the filter being applied to the
\* scaled width and height; every region of the extraction at scale 1 is so
\* found, multiplied by s, in the extraction at scale s.
C18_ScaleInvariance ==
    [][ DetectStep =>
          /\ detector'.spots =
                 SelectSeq([i \in 1..Len(detector.mask) |->
                               Times(ScaledBox(detector.mask[i], 1), detector.scale_coef)],
                           ExceedsFilter)
          /\ \A b \in Range(DetectSpots([detector EXCEPT !.scale_coef = 1])) :
                 Times(b, detector.scale_coef) \in Range(detector'.spots) ]_vars

\* at scale 2 a component of 6 x 6, below the filter before scaling, was kept
\* as 12 x 12, and one of 5 x 21, 10 wide after scaling, was discarded
C18_Witness ==
    /\ last.op = "detect_spots" /\ detector.scale_coef = 2
    /\ detector.mask = <<Box(10, 10, 6, 6), Box(50, 50, 5, 21)>>
    /\ detector.spots = <<Box(20, 20, 12, 12)>>

\* C19: get_statistics returns available = the number of Empty statuses,
\* occupied = the number of Occupied, unknown = the number of Unknown, their sum
\* being total_spots, and availability_rate = available / total_spots when
\* total_spots > 0 and 0 otherwise; 3 Empty and 1 Occupied of 4 give 0.75.
C19_StatisticsCount ==
    /\ last.op = "get_statistics" =>
          /\ last.stats # {}
          /\ \A r \in last.stats :
                /\ r.total_spots = Len(spots)
                /\ r.available_spots =
                       Cardinality({i \in DOMAIN spots_status : spots_status[i] = EMPTY})
                /\ r.occupied_spots =
                       Cardinality({i \in DOMAIN spots_status : spots_status[i] = OCCUPIED})
                /\ r.unknown_spots =
                       Cardinality({i \in DOMAIN spots_status : spots_status[i] = UNKNOWN})
                /\ r.available_spots + r.occupied_spots + r.unknown_spots = r.total_spots
                /\ r.availability_rate.den > 0
                /\ IF r.total_spots > 0
                   THEN r.availability_rate.num * r.total_spots
                            = r.available_spots * r.availability_rate.den
                   ELSE r.availability_rate.num = 0
    /\ LET r == Statistics(<<Box(0, 0, 11, 11), Box(20, 0, 11, 11), Box(40, 0, 11, 11),
                             Box(60, 0, 11, 11)>>,
                           <<EMPTY, EMPTY, EMPTY, OCCUPIED>>, 0, 0, 0)
       IN r.availability_rate.num * 100 = 75 * r.availability_rate.den

\* statistics read after a pass that left one spot Empty and one Occupied: an
\* availability rate of one half
C19_Witness ==
    /\ last.op = "get_statistics"
    /\ spots_status = <<EMPTY, OCCUPIED>>
    /\ \E r \in last.stats :
          /\ r.available_spots = 1 /\ r.occupied_spots = 1 /\ r.unknown_spots = 0
          /\ r.availability_rate = Ratio(1, 2)

\* C20: get_statistics changes no state of the engine, and a call that follows
\* a call, no frame submitted in between, returns the same dictionary.
C20_StatisticsReadOnly ==
    [][ last'.op = "get_statistics" =>
          /\ UNCHANGED <<detector, settings, processing_step, diff_threshold, spots,
                         spots_status, diffs, previous_frame, frame_number,
                         total_frames, processed_frames, cap>>
          /\ last.op = "get_statistics" => last'.stats = last.stats ]_vars

\* statistics read in the middle of a run: two frames counted, one of them
\* sampled, the capture still open
C20_Witness ==
    /\ last.op = "get_statistics" /\ cap = "open"
    /\ processing_step = 2 /\ Len(spots) = 2
    /\ \E r \in last.stats :
          r.total_frames = 2 /\ r.processed_frames = 1 /\ r.current_frame = 2

\* the step is a sampling pass that ran to its end: the snapshot was replaced
SnapshotStep == SamplingStep /\ last'.ret = "frame"

\* C21: the snapshot stored by a sampling pass is a copy of the submitted frame,
\* an object of its own: it holds the frame as submitted, without overlays, and
\* no other step (the caller writing into its buffer, the annotation of a frame
\* that is not sampled) changes what previous_frame holds.
C21_SnapshotIsACopy ==
    [][ /\ SnapshotStep =>
              /\ buffers'.previous_frame \notin {"None", "frame", "annotated"}
              /\ SnapshotContent(buffers') = Content(buffers.heap["frame"].px, FALSE)
        /\ ~SnapshotStep =>
              /\ SnapshotContent(buffers') = SnapshotContent(buffers)
              /\ previous_frame' = previous_frame
        /\ previous_frame' = SnapshotContent(buffers').px ]_vars

\* the caller has written another frame into its buffer after a sampling pass,
\* and the snapshot still holds the frame that was sampled
C21_Witness ==
    /\ last.op = "write_frame" /\ processed_frames >= 1
    /\ buffers.previous_frame = "snapshot"
    /\ buffers.heap["frame"].px # previous_frame
    /\ buffers.heap["snapshot"] = Content(previous_frame, FALSE)
    /\ buffers.heap["annotated"].overlay

\* C22: annotation changes neither the engine's state nor the submitted frame:
\* the caller's buffer is as before the call, a frame that is only annotated
\* leaves spots, statuses, magnitudes, snapshot and processed_frames unchanged;
\* a spot is drawn as available exactly when its status is Empty, and the
\* banner shows the count of Empty statuses over the number of spots, the
\* available_spots and total_spots of get_statistics in that state.
C22_AnnotationIsPure ==
    [][ (FrameStep /\ last'.ret = "frame") =>
          /\ buffers'.heap["frame"] = buffers.heap["frame"]
          /\ buffers'.annotated \notin {"None", "frame", buffers'.previous_frame}
          /\ buffers'.heap[buffers'.annotated] = Content(buffers.heap["frame"].px, TRUE)
          /\ processed_frames' = processed_frames =>
                 UNCHANGED <<spots, spots_status, diffs, previous_frame>>
          /\ last'.drawn # {}
          /\ \A d \in last'.drawn :
                /\ DOMAIN d.colors = 1..Len(spots')
                /\ \A i \in 1..Len(spots') :
                       d.colors[i] = "green" <=> spots_status'[i] = EMPTY
                /\ d.available_count = CountStatus(spots_status', EMPTY)
                /\ d.total_count = Len(spots')
                /\ LET r == Statistics(spots', spots_status', total_frames',
                                       processed_frames', frame_number')
                   IN /\ d.available_count = r.available_spots
                      /\ d.total_count = r.total_spots ]_vars

\* a frame that was not sampled was annotated while both spots were Unknown:
\* both drawn red, the banner showing 0 / 2
C22_Witness ==
    /\ last.op = "process_frame" /\ last.ret = "frame"
    /\ processing_step = 2 /\ frame_number = 1 /\ processed_frames = 0
    /\ spots_status = <<UNKNOWN, UNKNOWN>>
    /\ last.drawn = {[colors |-> <<"red", "red">>, available_count |-> 0, total_count |-> 2]}
    /\ buffers.heap["annotated"].overlay /\ ~buffers.heap["frame"].overlay

\* C23: no run of process_video ends with the capture handle that initialize
\* opened still open.
C23_HandleReleasedOnEveryExit ==
    run.pc = "done" => cap # "open"

\* C24: a process_frame() that finds the source exhausted returns None and
\* changes no state of the engine, and the run then goes on to its end, where
\* the processor is released.
C24_EndOfStreamEndsRun ==
    /\ [][ (run.pc = "loop" /\ run'.exit = "end_of_stream") =>
              /\ last'.op = "process_frame" /\ last'.ret = "None" /\ ~last'.received
              /\ UNCHANGED <<spots, spots_status, diffs, previous_frame, frame_number,
                             total_frames, processed_frames, cap>> ]_vars
    /\ (run.exit = "end_of_stream") ~> (run.pc = "done" /\ cap = "released")

\* a run that sampled frames ended on the exhaustion of its source and released
\* the processor
C24_Witness ==
    /\ run = [pc |-> "done", exit |-> "end_of_stream"]
    /\ cap = "released" /\ last.op = "release"
    /\ frame_number = 2 /\ processed_frames >= 1

\* C25: a call of process_frame that received a frame and failed on it reports
\* an outcome other than None, the outcome of a call that found the source
\* exhausted, on which the loop of process_video ends the run.
C25_ErrorsDistinguishable ==
    [][ FrameStep => last'.ret # Obs("process_frame", "None").ret ]_vars

\* the crop is degenerate: None, empty, or such that resizing or inference fails
Degenerate(entry) ==
    entry.img.kind = "None" \/ entry.img.size = 0 \/ entry.out.kind = "raise"

\* C26: predict returns Occupied for a degenerate crop (None, of size zero, or
\* malformed so that resizing or inference fails); predict_batch gives one
\* result per input, in the order of the inputs, Occupied for every None entry.
C26_DegenerateCropIsOccupied ==
    /\ call.op = "predict" =>
          /\ call.result[1] \in {EMPTY, OCCUPIED}
          /\ Degenerate(call.spot_images[1]) => call.result = <<OCCUPIED>>
    /\ call.op = "predict_batch" =>
          /\ Len(call.result) = Len(call.spot_images)
          /\ \A i \in 1..Len(call.spot_images) :
                /\ call.spot_images[i].img.kind = "None" => call.result[i] = OCCUPIED
                /\ Degenerate(call.spot_images[i]) => call.result[i] = OCCUPIED
                /\ call.result[i] = PredictCrop(call.spot_images[i].img,
                                                call.spot_images[i].out,
                                                DefaultConfidence)

\* predict_batch was given None and then an image the model finds empty
C26_Witness ==
    /\ call.op = "predict_batch"
    /\ call.spot_images = <<[img |-> NoneImage, out |-> Raises],
                            [img |-> ArrayImage(675), out |-> Proba(8, 2)]>>
    /\ call.result = <<OCCUPIED, EMPTY>>

\* the spot lies fully inside the frame
FullyInside(frame, spot) ==
    /\ spot.x >= 0 /\ spot.y >= 0
    /\ spot.x + spot.w <= frame.width
    /\ spot.y + spot.h <= frame.height

\* C28: get_spot_roi returns the crop of height h and width w at (x, y) for a
\* spot that lies fully inside the frame, and None for a spot with a negative
\* coordinate or extending past the right or bottom edge; never a truncated crop.
C28_RoiIsWholeOrNone ==
    call.op = "get_spot_roi" =>
        /\ FullyInside(call.frame, call.spot) =>
               call.result = {[shape |-> <<call.spot.h, call.spot.w>>,
                               x |-> call.spot.x, y |-> call.spot.y]}
        /\ ~FullyInside(call.frame, call.spot) => call.result = {}
        /\ \A roi \in call.result : roi.shape = <<call.spot.h, call.spot.w>>

\* a spot that fits the frame's width but extends past its bottom edge got None
C28_Witness ==
    /\ call.op = "get_spot_roi"
    /\ call.frame.height = 40 /\ call.frame.width = 60
    /\ call.spot = Box(30, 30, 21, 21)
    /\ call.result = {}

\* C27: one call of process_frame invokes the classifier at most once per
\* candidate spot and for no spot outside the candidate set, not at all on a
\* frame that is not a sampling frame, hence at most once per spot.
C27_OneInvocationPerCandidate ==
    [][ FrameStep =>
          /\ \A j, k \in 1..Len(last'.invocations) :
                 last'.invocations[j] = last'.invocations[k] => j = k
          /\ \A k \in 1..Len(last'.invocations) :
                 last'.invocations[k] \in last'.candidates \cap AllSpots
          /\ frame_number' % processing_step # 0 => last'.invocations = <<>>
          /\ Len(last'.invocations) <= Len(spots) ]_vars

\* a third frame, sampled, invoked the classifier once for each of two spots
C27_Witness ==
    /\ last.op = "process_frame" /\ last.ret = "frame"
    /\ frame_number = 3 /\ processed_frames = 3
    /\ Len(spots) = 2 /\ last.invocations = <<1, 2>>

\* C29: a submitted frame that is not a sampling frame is only counted: spots,
\* statuses, magnitudes, snapshot and processed_frames are unchanged; a status
\* changes only in the update step of a sampling frame or by initialize.
C29_OtherFramesOnlyCounted ==
    [][ /\ (FrameStep /\ frame_number' % processing_step # 0) =>
              /\ UNCHANGED <<spots, spots_status, diffs, previous_frame, processed_frames>>
              /\ frame_number' = frame_number + 1
        /\ spots_status' # spots_status =>
              \/ last'.op = "initialize"
              \/ FrameStep /\ frame_number' % processing_step = 0 ]_vars

\* at cadence 2 a third frame, of another size than the snapshot, was counted
\* and returned while the statuses of the second frame were kept
C29_Witness ==
    /\ last.op = "process_frame" /\ last.received /\ last.ret = "frame"
    /\ processing_step = 2 /\ frame_number = 3 /\ processed_frames = 1
    /\ previous_frame # NoFrame /\ last.shape[2] # previous_frame.height
    /\ spots_status = <<EMPTY, OCCUPIED>>

\* C30: on a sampling frame after the first, a spot whose crop in the frame and
\* crop in the previous sampled frame differ in shape gets the magnitude inf
\* and is in the candidate set, at every diff_threshold and whatever the
\* magnitudes of the other spots (numbers, inf or nan).
C30_ShapeMismatchIsChecked ==
    [][ LaterSamplingStep =>
          \A i \in AllSpots :
              CropShape(previous_frame', spots[i]) # CropShape(previous_frame, spots[i])
                  => /\ diffs'[i] = INF
                     /\ i \in last'.candidates ]_vars

\* at diff_threshold 1.0 the first spot was empty in both frames (nan, the
\* maximum Python's max returns), the second changed its shape and was checked
C30_Witness ==
    /\ last.op = "process_frame" /\ last.ret = "frame" /\ processed_frames >= 2
    /\ diff_threshold = 10
    /\ Len(diffs) = 3 /\ diffs[1] = NAN /\ diffs[2] = INF /\ diffs[3].k = "num"
    /\ 2 \in last.candidates

\* C31: within one sampling pass the result does not depend on the order in
\* which the candidate spots are classified: taking the candidates in any
\* permutation gives the status table the pass stores.
C31_OrderIndependent ==
    [][ (FrameStep /\ call'.op = "reordered") => call'.status = spots_status' ]_vars

\* three candidates were taken in the order 3, 1, 2 and got different statuses
C31_Witness ==
    /\ call.op = "reordered" /\ call.order = <<3, 1, 2>>
    /\ last.ret = "frame" /\ last.classified = {1, 2, 3}
    /\ spots_status = <<EMPTY, OCCUPIED, EMPTY>>
    /\ call.status = spots_status

\* the step is a sampling frame on which the candidate list was computed: the
\* first sampled frame, or a later one whose magnitudes could be computed
SelectionStep ==
    /\ SamplingStep /\ Len(spots) > 0
    /\ (previous_frame = NoFrame \/ (last'.shape[1] = 3 /\ previous_frame.ndim = 3))

\* the maximum magnitude of the table df is a number > 0
PositiveFiniteMax(df) == PyMax(df).k = "num" /\ PyMax(df).v > 0

\* C32: on every sampling frame of an engine with at least one spot the
\* candidate set is non-empty; and when the maximum magnitude M is positive and
\* finite (diff_threshold in [0, 1]), every spot whose magnitude is M is a
\* candidate: the thresholded set is not empty and the candidates are that set.
C32_CandidatesNonEmpty ==
    [][ /\ SelectionStep => last'.candidates # {}
        /\ (LaterSamplingStep /\ PositiveFiniteMax(diffs') /\ diff_threshold \in 0..10) =>
               /\ \A i \in AllSpots :
                      diffs'[i] = PyMax(diffs') => i \in last'.candidates
               /\ AtLeastThreshold(diffs', PyMax(diffs'), diff_threshold) # {}
               /\ last'.candidates =
                      AtLeastThreshold(diffs', PyMax(diffs'), diff_threshold) ]_vars

\* a later sampling pass with the magnitudes 1 and nan: the maximum is 1, and
\* the spot that holds it is the candidate set
C32_Witness ==
    /\ last.op = "process_frame" /\ last.ret = "frame" /\ processed_frames >= 2
    /\ frame_number % processing_step = 0
    /\ diffs = <<Num(1), NAN>> /\ last.candidates = {1}

\* the unknown count get_statistics reports in the current state
UnknownCount ==
    Statistics(spots, spots_status, total_frames, processed_frames,
               frame_number).unknown_spots

\* C33: Unknown is only an initial value.  After an initialization no call
\* sets a status that is Empty or Occupied back to Unknown, whether
\* process_frame samples the frame or not, succeeds or fails, and the unknown
\* count of get_statistics does not increase.
C33_UnknownOnlyInitial ==
    [][ last'.op # "initialize" =>
            /\ Len(spots_status') = Len(spots_status)
            /\ \A i \in 1..Len(spots_status) :
                   spots_status[i] # UNKNOWN => spots_status'[i] # UNKNOWN
            /\ UnknownCount' <= UnknownCount ]_vars

\* a process_frame call failed on a sampling frame after every spot had been
\* classified, and both spots still hold their statuses
C33_Witness ==
    /\ last.op = "process_frame" /\ last.received /\ last.ret = "None"
    /\ processed_frames >= 2 /\ frame_number % processing_step = 0
    /\ spots_status = <<EMPTY, OCCUPIED>>

\* C34: a successful initialize() on a processor that has already processed
\* frames leaves it as a freshly constructed and initialized one (every status
\* Unknown, every magnitude undefined, no snapshot, the counters at zero), so
\* that the sampling pass that follows classifies every spot and leaves none
\* Unknown.
C34_ReinitializeIsFresh ==
    [][ /\ (last'.op = "initialize" /\ last'.ret = "True") =>
               /\ \A i \in 1..Len(spots') :
                      spots_status'[i] = UNKNOWN /\ diffs'[i] = NONE
               /\ previous_frame' = NoFrame
               /\ frame_number' = 0 /\ total_frames' = 0 /\ processed_frames' = 0
        /\ (last.op = "initialize" /\ SamplingStep /\ last'.shape = <<3, 200, 200>>) =>
               /\ last'.classified = AllSpots
               /\ CountStatus(spots_status', UNKNOWN) = 0 ]_vars

\* C35: for every candidate spot with a non-empty crop the status stored by
\* _update_spot_statuses is the value predict returned when INVERT_PREDICTION
\* is false and its negation when it is true, whatever predict returned (its
\* fallback on a failure included): the inversion is applied exactly once.
C35_InversionOncePerClassification ==
    [][ SamplingStep =>
            \A i \in last'.classified :
                spots_status'[i] = IF settings.INVERT_PREDICTION
                                   THEN Not(last'.returned[i])
                                   ELSE last'.returned[i] ]_vars

\* with INVERT_PREDICTION on, predict returned Empty for spot 1 and its
\* fallback Occupied for spot 2, where the model raised; the table holds the
\* negations
C35_Witness ==
    /\ settings.INVERT_PREDICTION
    /\ last.op = "process_frame" /\ last.ret = "frame"
    /\ last.classified = {1, 2} /\ last.failed = {2}
    /\ last.returned = <<EMPTY, OCCUPIED>>
    /\ spots_status = <<OCCUPIED, EMPTY>>

\* predict was called on a crop for which the model reports probabilities
ProbaCalled == call.op = "predict" /\ call.spot_images[1].out.kind = "proba"

\* C36: when the model reports class probabilities, predict with confidence
\* threshold t returns Empty if and only if empty_prob >= t, or both
\* probabilities are below t and empty_prob > occupied_prob; hence for every
\* t > 0.5 it returns the strictly more probable class, and Occupied on a tie.
C36_ProbabilityDecision ==
    ProbaCalled =>
        LET e == call.spot_images[1].out.e
            o == call.spot_images[1].out.o
            t == call.confidence_threshold
            status == call.result[1]
        IN /\ status \in {EMPTY, OCCUPIED}
           /\ status = EMPTY <=> (e >= t \/ (e < t /\ o < t /\ e > o))
           /\ t > 5 => /\ e > o => status = EMPTY
                       /\ o > e => status = OCCUPIED
                       /\ e = o => status = OCCUPIED

\* at the threshold 0.6 the probabilities 0.5 and 0.5 gave Occupied
C36_Witness ==
    /\ ProbaCalled
    /\ call.confidence_threshold = 6
    /\ call.spot_images[1].out = Proba(5, 5)
    /\ call.result = <<OCCUPIED>>

====
